---------------------------- MODULE Spec2Model ----------------------------
(***************************************************************************)
(* A model of the FastAPI social-media API (app/): the users, posts and    *)
(* votes tables of app/models.py, the token functions of app/oauth2.py and *)
(* the request handlers of app/routers/.  A request occupies a connection  *)
(* slot; every database statement of a handler is one atomic step, so the  *)
(* statements of concurrent requests interleave the way READ COMMITTED     *)
(* sessions do.  Time is counted in whole units of the token clock.        *)
(***************************************************************************)
EXTENDS Integers, Sequences, FiniteSets, TLC

\* Bounds of the model.
MaxUsers == 2
MaxPosts == 2
MaxTime == 2
NReq == 2

\* app/oauth2.py: the configured lifetime of a token, in clock units.
ACCESS_TOKEN_EXPIRE_MINUTES == 1

VARIABLES users, posts, votes, user_id_seq, post_id_seq, now, held, registered,
          cascaded, req

vars ==
    <<users, posts, votes, user_id_seq, post_id_seq, now, held, registered,
      cascaded, req>>

Slots == 1..NReq
UserIds == 1..MaxUsers
PostIds == 1..MaxPosts

-----------------------------------------------------------------------------
\* Inputs drawn by the clients.

\* An e-mail address is <<local part, domain>>.
RawEmails == {<<"a", "x.com">>, <<"a", "X.com">>, <<"b", "x.com">>}
Passwords == {"pw1", "pw2"}

\* A title is a sequence of characters, so that "contains" is computed.
PayloadA == [title |-> <<"a", "b", "c">>, content |-> "cba"]
PayloadB == [title |-> <<"x">>, content |-> "zxs", published |-> FALSE]
PayloadBad == [content |-> "cba"]

PostPayloads == {PayloadA, PayloadB, PayloadBad}

\* The credentials of the two users registered before the post and vote
\* scenarios start.
InitialLogins == {<<<<"a", "x.com">>, "pw1">>, <<<<"b", "x.com">>, "pw2">>}

NoPayload == [none |-> TRUE]

\* The dir of a vote request body: 0, 1, and 2, which the schema refuses.
VoteDirs == {0, 1, 2}

-----------------------------------------------------------------------------
\* app/schemas.py and app/utils.py

\* EmailStr validates and returns the normalised address: the domain part is
\* lower-cased, the local part is kept as written.
LowerDomain(d) == IF d = "X.com" THEN "x.com" ELSE d

EmailStr(e) == <<e[1], LowerDomain(e[2])>>

\* PostCreate: title and content are required, published defaults to True.
PostCreateValid(p) == {"title", "content"} \subseteq DOMAIN p

model_dump(p) ==
    [title |-> p.title, content |-> p.content,
     published |-> IF "published" \in DOMAIN p THEN p.published ELSE TRUE]

\* schemas.Vote: dir is an integer with 0 <= dir <= 1.
VoteValid(d) == d >= 0 /\ d <= 1

\* utils.hash / utils.verify_password: a one-way digest of the plaintext; the
\* digest verifies exactly the plaintext it was made from.
hash(password) == [scheme |-> "bcrypt", of |-> password]

verify_password(plain_password, hashed_password) ==
    hashed_password.of = plain_password

-----------------------------------------------------------------------------
\* app/oauth2.py

NoToken == [user_id |-> 0, exp |-> 0, sig |-> "none"]

\* A token made without the signing key.
ForgedToken == [user_id |-> 1, exp |-> MaxTime + ACCESS_TOKEN_EXPIRE_MINUTES, sig |-> "bad"]

create_access_token(uid, t) ==
    [user_id |-> uid, exp |-> t + ACCESS_TOKEN_EXPIRE_MINUTES, sig |-> "good"]

\* A faulty variant: the expiry compared with <= , a token dies one clock unit early.
verify_access_token_early(token, t) ==
    IF token.sig # "good" \/ token.exp <= t THEN 0
    ELSE IF token.user_id = 0 THEN 0
    ELSE token.user_id

\* jwt.decode rejects a bad signature and an exp earlier than the clock; the
\* result is the embedded user id, 0 standing for credentials_exception.
verify_access_token(token, t) ==
    IF token.sig # "good" \/ token.exp < t THEN 0
    ELSE IF token.user_id = 0 THEN 0
    ELSE token.user_id

UserById(us, uid) == {u \in us : u.id = uid}

\* A faulty variant: the token's payload is read without verifying the token.
get_current_user_unverified(token, t, us) ==
    IF UserById(us, token.user_id) = {} THEN 0 ELSE token.user_id

\* A faulty variant: the user row is not looked up.
get_current_user_no_lookup(token, t, us) == verify_access_token(token, t)

\* The user id get_current_user returns, 0 standing for credentials_exception.
get_current_user(token, t, us) ==
    LET id == verify_access_token(token, t) IN
    IF id = 0 THEN 0
    ELSE IF UserById(us, id) = {} THEN 0
    ELSE (CHOOSE u \in UserById(us, id) : TRUE).id

-----------------------------------------------------------------------------
\* app/models.py: the tables and their constraints.

VoteKeys == UserIds \X PostIds

NoVotes == [k \in VoteKeys |-> 0]

PostById(ps, id) == {p \in ps : p.id = id}

\* users.email is unique.
EmailTaken(us, email) == \E u \in us : u.email = email

\* A faulty variant: votes without its primary key.
NoPrimaryKey(vs, uid, pid) == FALSE

\* votes has the composite primary key (user_id, post_id).
VotePkViolation(vs, uid, pid) == vs[<<uid, pid>>] > 0

\* A faulty variant: votes without its foreign keys.
NoForeignKey(us, ps, uid, pid) == FALSE

\* votes.user_id and votes.post_id are foreign keys.
VoteFkViolation(us, ps, uid, pid) ==
    UserById(us, uid) = {} \/ PostById(ps, pid) = {}

\* ON DELETE CASCADE of votes.post_id.
CascadePost(vs, pid) ==
    [k \in VoteKeys |-> IF k[2] = pid THEN 0 ELSE vs[k]]

\* A faulty variant: posts.owner_id without ON DELETE CASCADE.
NoCascadeUserPosts(ps, uid) == ps

\* ON DELETE CASCADE of posts.owner_id and votes.user_id.
CascadeUserPosts(ps, uid) == {p \in ps : p.owner_id # uid}

CascadeUserVotes(vs, ps, uid) ==
    [k \in VoteKeys |->
        IF k[1] = uid \/ (\E p \in ps : p.id = k[2] /\ p.owner_id = uid)
        THEN 0 ELSE vs[k]]

\* func.count(Vote.post_id) over the outer join of posts with votes, grouped
\* by post: the number of vote rows of the post, 0 for a post without votes.
RECURSIVE SumVotes(_, _, _)
SumVotes(vs, pid, S) ==
    IF S = {} THEN 0
    ELSE LET u == CHOOSE x \in S : TRUE IN
         vs[<<u, pid>>] + SumVotes(vs, pid, S \ {u})

VoteCount(vs, pid) == SumVotes(vs, pid, UserIds)

\* A faulty variant: an inner join, a post without votes has no row.
PostWithVotesInnerJoin(ps, vs, id) ==
    {<<p, VoteCount(vs, id)>> : p \in {x \in PostById(ps, id) : VoteCount(vs, id) > 0}}

\* The rows of the outer join for one post id: <<post, votes>> pairs.
PostWithVotes(ps, vs, id) ==
    {<<p, VoteCount(vs, id)>> : p \in PostById(ps, id)}

-----------------------------------------------------------------------------
\* Requests.

Idle ==
    [kind |-> "none", pc |-> "idle", tok |-> NoToken, id |-> 0, dir |-> 0,
     payload |-> NoPayload, user |-> 0, found_vote |-> FALSE,
     status |-> 0, detail |-> "", out |-> 0, body |-> <<>>]

\* The finished request: what identifies it (the endpoint, the token, the
\* path or body ids, the credentials of an open endpoint) and the response.
Respond(q, status, detail, out) ==
    [Idle EXCEPT !.kind = q.kind, !.pc = "done", !.tok = q.tok, !.id = q.id,
                 !.dir = q.dir,
                 !.payload = IF q.kind \in {"create_user", "login"}
                             THEN q.payload ELSE NoPayload,
                 !.status = status, !.detail = detail, !.out = out]

TypeOK ==
    /\ now \in 0..MaxTime
    /\ user_id_seq \in 1..(MaxUsers + 1)
    /\ post_id_seq \in 1..(MaxPosts + 1)
    /\ \A u \in users : u.id \in UserIds
    /\ \A p \in posts : p.id \in PostIds
    /\ votes \in [VoteKeys -> Nat]
    /\ cascaded \subseteq PostIds

Init ==
    /\ users = {}
    /\ posts = {}
    /\ votes = NoVotes
    /\ user_id_seq = 1
    /\ post_id_seq = 1
    /\ now = 0
    /\ held = [r \in Slots |-> NoToken]
    /\ registered = {}
    /\ cascaded = {}
    /\ req = [r \in Slots |-> Idle]

\* The clock advances.
Tick ==
    /\ now < MaxTime
    /\ now' = now + 1
    /\ UNCHANGED <<cascaded, registered, users, posts, votes, user_id_seq, post_id_seq, held, req>>

\* The client takes the response; the connection is free again.
Reset(r) ==
    /\ req[r].pc = "done"
    /\ req' = [req EXCEPT ![r] = Idle]
    /\ UNCHANGED <<cascaded, registered, users, posts, votes, user_id_seq, post_id_seq, now, held>>

\* routers/user.py create_user: POST /users.  The client keeps the
\* credentials it registered with (registered), as it keeps its token (held).
create_user(r, email, password) ==
    /\ req[r].pc = "idle"
    /\ user_id_seq <= MaxUsers
    /\ LET q == [Idle EXCEPT !.kind = "create_user",
                             !.payload = [email |-> email, password |-> password]]
           row == [id |-> user_id_seq, email |-> EmailStr(email),
                   password |-> hash(password)]
       IN  IF EmailTaken(users, row.email)
           THEN \* IntegrityError out of db.commit(), not caught
                /\ req' = [req EXCEPT ![r] = Respond(q, 500, "Internal Server Error", 0)]
                /\ UNCHANGED <<registered, users, user_id_seq>>
           ELSE /\ users' = users \cup {row}
                /\ user_id_seq' = user_id_seq + 1
                /\ registered' = registered \cup
                        {[id |-> row.id, email |-> email, password |-> password]}
                /\ req' = [req EXCEPT ![r] = Respond(q, 201, "", row.id)]
    /\ UNCHANGED <<cascaded, posts, votes, post_id_seq, now, held>>

\* routers/auth.py login: POST /login.
login(r, username, password) ==
    /\ req[r].pc = "idle"
    /\ LET q == [Idle EXCEPT !.kind = "login",
                             !.payload = [email |-> username, password |-> password]]
           found == {u \in users : u.email = username}
       IN  IF found = {} \/ (\E u \in found : ~verify_password(password, u.password))
           THEN /\ req' = [req EXCEPT ![r] = Respond(q, 403, "Invalid credentials", 0)]
                /\ held' = held
           ELSE LET user == CHOOSE u \in found : TRUE IN
                /\ held' = [held EXCEPT ![r] = create_access_token(user.id, now)]
                /\ req' = [req EXCEPT ![r] = Respond(q, 200, "", user.id)]
    /\ UNCHANGED <<cascaded, registered, users, posts, votes, user_id_seq, post_id_seq, now>>

\* A row of users is deleted in the database; models.py cascades the
\* deletion to the user's posts and votes.  Issued tokens are not touched.
\* cascaded records the ids of the posts a user's deletion removed.
DeleteUser(uid) ==
    /\ UserById(users, uid) # {}
    /\ users' = users \ UserById(users, uid)
    /\ posts' = CascadeUserPosts(posts, uid)
    /\ votes' = CascadeUserVotes(votes, posts, uid)
    /\ cascaded' = cascaded \cup {p.id : p \in posts \ CascadeUserPosts(posts, uid)}
    /\ UNCHANGED <<registered, user_id_seq, post_id_seq, now, held, req>>

-----------------------------------------------------------------------------
\* Protected endpoints: routers/post.py and routers/vote.py.

ProtectedKinds ==
    {"get_posts", "get_post", "create_post", "delete_post", "update_post", "vote"}

\* The request body FastAPI validates before the endpoint body runs.
BodyValid(kind, dir, payload) ==
    IF kind \in {"create_post", "update_post"} THEN PostCreateValid(payload)
    ELSE IF kind = "vote" THEN VoteValid(dir)
    ELSE TRUE

\* The tokens a client can present: the one its login returned, a forged one,
\* or none.
Presentable(r) == {held[r], ForgedToken, NoToken}

\* The dependencies of a protected endpoint are resolved before its body:
\* oauth2_scheme (401 without a bearer token), get_current_user, and then the
\* validation of the request body (422).
Begin(r, kind, tok, id, dir, payload) ==
    /\ req[r].pc = "idle"
    /\ LET q == [Idle EXCEPT !.kind = kind, !.tok = tok, !.id = id,
                             !.dir = dir, !.payload = payload]
           \* a request refused before its endpoint body: the path and body
           \* parameters were never looked at
           q0 == [Idle EXCEPT !.kind = kind, !.tok = tok]
           uid == get_current_user(tok, now, users)
       IN  req' = [req EXCEPT ![r] =
                IF tok = NoToken
                THEN Respond(q0, 401, "Not authenticated", 0)
                ELSE IF uid = 0
                THEN Respond(q0, 401, "Could not validate credentials", 0)
                ELSE IF ~BodyValid(kind, dir, payload)
                THEN [Respond(q, 422, "Unprocessable Entity", 0) EXCEPT !.payload = payload]
                ELSE [q EXCEPT !.pc = kind, !.user = uid]]
    /\ UNCHANGED <<cascaded, registered, users, posts, votes, user_id_seq, post_id_seq, now, held>>

\* The LIKE operator: in the pattern, "%" stands for any sequence of
\* characters and "_" for any one character.
RECURSIVE Like(_, _)
Like(string, pattern) ==
    IF pattern = <<>> THEN string = <<>>
    ELSE IF Head(pattern) = "%"
    THEN Like(string, Tail(pattern)) \/ (string # <<>> /\ Like(Tail(string), pattern))
    ELSE /\ string # <<>>
         /\ Head(pattern) = "_" \/ Head(pattern) = Head(string)
         /\ Like(Tail(string), Tail(pattern))

\* Post.title.contains(search): title LIKE '%' || search || '%', the
\* characters of search not escaped.
Contains(title, search) == Like(title, <<"%">> \o search \o <<"%">>)

\* The ids of a set of posts in ascending order.
RECURSIVE OrderById(_)
OrderById(ids) ==
    IF ids = {} THEN <<>>
    ELSE LET m == CHOOSE x \in ids : \A y \in ids : x <= y IN
         <<m>> \o OrderById(ids \ {m})

\* .offset(skip) and .limit(limit) of an ordered result.
OffsetLimit(rows, skip, limit) ==
    SubSeq(rows, skip + 1, IF Len(rows) < skip + limit THEN Len(rows) ELSE skip + limit)

\* The query of get_posts: <<post id, votes>> rows.
PostsQuery(ps, vs, limit, skip, search) ==
    LET ids == OrderById({p.id : p \in {x \in ps : Contains(x.title, search)}})
        rows == [i \in 1..Len(ids) |-> <<ids[i], VoteCount(vs, ids[i])>>]
    IN  OffsetLimit(rows, skip, limit)

\* limit: int = 10, skip: int = 0, search = ""
DefaultQuery == [limit |-> 10, skip |-> 0, search |-> <<>>]

ListQueries ==
    { DefaultQuery,
      [limit |-> 1, skip |-> 1, search |-> <<>>],
      [limit |-> 10, skip |-> 0, search |-> <<"b", "c">>],
      [limit |-> 10, skip |-> 0, search |-> <<"_">>] }

\* get_posts: GET /posts
get_posts(r) ==
    /\ req[r].pc = "get_posts"
    /\ LET q == req[r]
           rows == PostsQuery(posts, votes, q.payload.limit, q.payload.skip,
                              q.payload.search)
       IN  req' = [req EXCEPT ![r] = [Respond(q, 200, "", Len(rows)) EXCEPT !.body = rows]]
    /\ UNCHANGED <<cascaded, registered, users, posts, votes, user_id_seq, post_id_seq, now, held>>

\* create_post: POST /posts.  posts.owner_id is a foreign key: the insert
\* fails when the owner's row is gone.
create_post(r) ==
    /\ req[r].pc = "create_post"
    /\ LET q == req[r]
           row == [id |-> post_id_seq, owner_id |-> q.user, created_at |-> now]
                    @@ model_dump(q.payload)
       IN  IF UserById(users, q.user) = {}
           THEN /\ req' = [req EXCEPT ![r] = Respond(q, 500, "Internal Server Error", 0)]
                /\ UNCHANGED <<posts, post_id_seq>>
           ELSE /\ posts' = posts \cup {row}
                /\ post_id_seq' = post_id_seq + 1
                /\ req' = [req EXCEPT ![r] = Respond(q, 201, "", row.id)]
    /\ UNCHANGED <<cascaded, registered, users, votes, user_id_seq, now, held>>

\* get_post: GET /posts/{id}
get_post(r) ==
    /\ req[r].pc = "get_post"
    /\ LET q == req[r]
           rows == PostWithVotes(posts, votes, q.id)
       IN  req' = [req EXCEPT ![r] =
                IF rows = {} THEN Respond(q, 404, "Post was not found", 0)
                ELSE Respond(q, 200, "", (CHOOSE x \in rows : TRUE)[2])]
    /\ UNCHANGED <<cascaded, registered, users, posts, votes, user_id_seq, post_id_seq, now, held>>

\* A faulty variant: the ownership check left out.
OwnerCheckExistsOnly(ps, id, uid) ==
    IF PostById(ps, id) = {} THEN 404 ELSE 0

\* The existence and ownership checks delete_post and update_post share:
\* the status they raise, 0 when the request may go on.
OwnerCheck(ps, id, uid) ==
    IF PostById(ps, id) = {} THEN 404
    ELSE IF (CHOOSE p \in PostById(ps, id) : TRUE).owner_id # uid THEN 403
    ELSE 0

CheckDetail(status) ==
    IF status = 404 THEN "Post was not found"
    ELSE "You are not the owner of the post"

\* A faulty variant: the rows are deleted before the checks are made.
delete_post_before_checks(r) ==
    /\ req[r].pc = "delete_post"
    /\ LET q == req[r]
           st == OwnerCheck(posts, q.id, q.user)
       IN  req' = [req EXCEPT ![r] =
                IF st # 0 THEN Respond(q, st, CheckDetail(st), 0)
                ELSE Respond(q, 204, "", 0)]
    /\ posts' = posts \ PostById(posts, req[r].id)
    /\ votes' = CascadePost(votes, req[r].id)
    /\ UNCHANGED <<cascaded, registered, users, user_id_seq, post_id_seq, now, held>>

\* delete_post: DELETE /posts/{id}, the read of the post and the checks.
delete_post(r) ==
    /\ req[r].pc = "delete_post"
    /\ LET q == req[r]
           st == OwnerCheck(posts, q.id, q.user)
       IN  req' = [req EXCEPT ![r] =
                IF st # 0 THEN Respond(q, st, CheckDetail(st), 0)
                ELSE [q EXCEPT !.pc = "delete_post_write"]]
    /\ UNCHANGED <<cascaded, registered, users, posts, votes, user_id_seq, post_id_seq, now, held>>

\* delete_post: post_query.delete() and db.commit(); votes.post_id cascades.
delete_post_write(r) ==
    /\ req[r].pc = "delete_post_write"
    /\ posts' = posts \ PostById(posts, req[r].id)
    /\ votes' = CascadePost(votes, req[r].id)
    /\ req' = [req EXCEPT ![r] = Respond(req[r], 204, "", 0)]
    /\ UNCHANGED <<cascaded, registered, users, user_id_seq, post_id_seq, now, held>>

\* update_post: PUT /posts/{id}, the read of the post and the checks.
update_post(r) ==
    /\ req[r].pc = "update_post"
    /\ LET q == req[r]
           st == OwnerCheck(posts, q.id, q.user)
       IN  req' = [req EXCEPT ![r] =
                IF st # 0 THEN Respond(q, st, CheckDetail(st), 0)
                ELSE [q EXCEPT !.pc = "update_post_write"]]
    /\ UNCHANGED <<cascaded, registered, users, posts, votes, user_id_seq, post_id_seq, now, held>>

\* A faulty variant: the update without the filter on the id.
UpdateRowsUnfiltered(ps, id, values) ==
    {[id |-> p.id, owner_id |-> p.owner_id, created_at |-> p.created_at] @@ values :
        p \in ps}

\* post_query.update(updated_post.model_dump()) on the rows with the id.
UpdateRows(ps, id, values) ==
    {IF p.id = id
     THEN [id |-> p.id, owner_id |-> p.owner_id, created_at |-> p.created_at] @@ values
     ELSE p : p \in ps}

\* update_post: post_query.update(...) and db.commit().
update_post_write(r) ==
    /\ req[r].pc = "update_post_write"
    /\ posts' = UpdateRows(posts, req[r].id, model_dump(req[r].payload))
    /\ req' = [req EXCEPT ![r].pc = "update_post_return", ![r].payload = NoPayload]
    /\ UNCHANGED <<cascaded, registered, users, votes, user_id_seq, post_id_seq, now, held>>

\* update_post: return post_query.first().  response_model=schemas.Post
\* cannot serialise None: the response is then a server error.
update_post_return(r) ==
    /\ req[r].pc = "update_post_return"
    /\ LET q == req[r] IN
       req' = [req EXCEPT ![r] =
                IF PostById(posts, q.id) = {}
                THEN Respond(q, 500, "Internal Server Error", 0)
                ELSE Respond(q, 200, "", q.id)]
    /\ UNCHANGED <<cascaded, registered, users, posts, votes, user_id_seq, post_id_seq, now, held>>

\* vote: POST /votes, the check that the post exists.
vote(r) ==
    /\ req[r].pc = "vote"
    /\ LET q == req[r] IN
       req' = [req EXCEPT ![r] =
                IF PostById(posts, q.id) = {}
                THEN Respond(q, 404, "Post does not exist", 0)
                ELSE [q EXCEPT !.pc = "vote_lookup"]]
    /\ UNCHANGED <<cascaded, registered, users, posts, votes, user_id_seq, post_id_seq, now, held>>

\* A faulty variant: the lookup filters on the post only.
FoundVoteAnyUser(vs, uid, pid) == \E u \in UserIds : vs[<<u, pid>>] > 0

\* found_vote = vote_query.first()
FoundVote(vs, uid, pid) == vs[<<uid, pid>>] > 0

\* vote: the lookup of the caller's vote and the branch on dir.
vote_lookup(r) ==
    /\ req[r].pc = "vote_lookup"
    /\ LET q == [req[r] EXCEPT !.found_vote = FoundVote(votes, req[r].user, req[r].id)] IN
       req' = [req EXCEPT ![r] =
                IF q.dir = 1
                THEN IF q.found_vote
                     THEN Respond(q, 409, "has already voted", 0)
                     ELSE [q EXCEPT !.pc = "vote_add"]
                ELSE IF ~q.found_vote
                     THEN Respond(q, 404, "vote does not exist", 0)
                     ELSE [q EXCEPT !.pc = "vote_remove"]]
    /\ UNCHANGED <<cascaded, registered, users, posts, votes, user_id_seq, post_id_seq, now, held>>

\* vote: db.add(new_vote) and db.commit().  A violated key raises
\* IntegrityError, which the handler does not catch.
vote_add(r) ==
    /\ req[r].pc = "vote_add"
    /\ LET q == req[r]
           k == <<q.user, q.id>>
       IN  IF \/ VotePkViolation(votes, q.user, q.id)
              \/ VoteFkViolation(users, posts, q.user, q.id)
           THEN /\ req' = [req EXCEPT ![r] = Respond(q, 500, "Internal Server Error", 0)]
                /\ votes' = votes
           ELSE /\ votes' = [votes EXCEPT ![k] = @ + 1]
                /\ req' = [req EXCEPT ![r] = Respond(q, 201, "successfully added vote", 0)]
    /\ UNCHANGED <<cascaded, registered, users, posts, user_id_seq, post_id_seq, now, held>>

\* vote: vote_query.delete() and db.commit().
vote_remove(r) ==
    /\ req[r].pc = "vote_remove"
    /\ LET q == req[r]
           k == <<q.user, q.id>>
       IN  /\ votes' = [votes EXCEPT ![k] = 0]
           /\ req' = [req EXCEPT ![r] = Respond(q, 201, "successfully deleted vote", 0)]
    /\ UNCHANGED <<cascaded, registered, users, posts, user_id_seq, post_id_seq, now, held>>

\* The requests a client sends to the protected endpoints, with the bodies
\* of its POST /posts and PUT /posts/{id} and the queries of its GET /posts
\* drawn from the given sets.  At most MaxPosts posts are ever created.
Request(r, creates, updates, queries) ==
    \E tok \in Presentable(r) :
        \/ \E lq \in queries : Begin(r, "get_posts", tok, 0, 0, lq)
        \/ \E id \in PostIds : Begin(r, "get_post", tok, id, 0, NoPayload)
        \/ /\ post_id_seq + Cardinality({s \in Slots : req[s].pc = "create_post"}) <= MaxPosts
           /\ \E p \in creates : Begin(r, "create_post", tok, 0, 0, p)
        \/ \E id \in PostIds : Begin(r, "delete_post", tok, id, 0, NoPayload)
        \/ \E id \in PostIds, p \in updates : Begin(r, "update_post", tok, id, 0, p)
        \/ \E id \in PostIds, d \in VoteDirs : Begin(r, "vote", tok, id, d, NoPayload)

\* One step of the endpoint body of the request in slot r.
Handle(r) ==
    \/ get_posts(r)
    \/ get_post(r)
    \/ create_post(r)
    \/ delete_post(r)
    \/ delete_post_write(r)
    \/ update_post(r)
    \/ update_post_write(r)
    \/ update_post_return(r)
    \/ vote(r)
    \/ vote_lookup(r)
    \/ vote_add(r)
    \/ vote_remove(r)

\* The passwords are interchangeable: the first registration takes "pw1",
\* the later ones either password.
RegistrationPasswords == IF user_id_seq = 1 THEN {"pw1"} ELSE Passwords

\* The identity layer.  One client registers, logs in and calls every
\* endpoint, its requests served one after the other, while the clock
\* advances and user rows are deleted.
Next ==
    \/ Tick
    \/ \E uid \in UserIds : DeleteUser(uid)
    \/ \E e \in RawEmails, p \in RegistrationPasswords : create_user(1, e, p)
    \/ \E e \in RawEmails, p \in Passwords : login(1, e, p)
    \/ Request(1, {PayloadA, PayloadBad}, {PayloadA, PayloadBad}, {DefaultQuery})
    \/ Handle(1)
    \/ Reset(1)

Spec == Init /\ [][Next]_vars

\* Two registered users, as two successful POST /users leave them.
TwoUsers ==
    { [id |-> 1, email |-> <<"a", "x.com">>, password |-> hash("pw1")],
      [id |-> 2, email |-> <<"b", "x.com">>, password |-> hash("pw2")] }

TwoRegistered ==
    { [id |-> 1, email |-> <<"a", "x.com">>, password |-> "pw1"],
      [id |-> 2, email |-> <<"b", "x.com">>, password |-> "pw2"] }

\* The two users stored, no post, one client that has not logged in yet.
InitPosts ==
    /\ users = TwoUsers
    /\ posts = {}
    /\ votes = NoVotes
    /\ user_id_seq = Cardinality(TwoUsers) + 1
    /\ post_id_seq = 1
    /\ now = 0
    /\ held = [r \in Slots |-> NoToken]
    /\ registered = TwoRegistered
    /\ cascaded = {}
    /\ req = [r \in Slots |-> Idle]

\* The two users stored, no post, every client logged in as one of them.
InitConc ==
    /\ users = TwoUsers
    /\ posts = {}
    /\ votes = NoVotes
    /\ user_id_seq = Cardinality(TwoUsers) + 1
    /\ post_id_seq = 1
    /\ now = 0
    /\ held \in {h \in [Slots -> {create_access_token(1, 0), create_access_token(2, 0)}] :
                    h[1].user_id = 1}
    /\ registered = TwoRegistered
    /\ cascaded = {}
    /\ req = [r \in Slots |-> Idle]

\* The post and vote endpoints, requests served one after the other: one
\* client logs in as either user and calls them with every body and query,
\* while the clock advances.
NextPosts ==
    \/ Tick
    \/ \E u \in InitialLogins : login(1, u[1], u[2])
    \/ Request(1, PostPayloads, PostPayloads, ListQueries)
    \/ Handle(1)
    \/ Reset(1)

SpecPosts == InitPosts /\ [][NextPosts]_vars

\* The post and vote endpoints under concurrency: NReq clients, each logged
\* in as one of the two users, whose requests interleave statement by
\* statement.
NextConc ==
    \E r \in Slots :
        \/ Request(r, {PayloadA}, {PayloadB, PayloadBad}, {DefaultQuery})
        \/ Handle(r)
        \/ Reset(r)

SpecConc == InitConc /\ [][NextConc]_vars

-----------------------------------------------------------------------------
\* The properties.

HandlerPcs ==
    {"get_posts", "get_post", "create_post", "delete_post", "delete_post_write",
     "update_post", "update_post_write", "update_post_return",
     "vote", "vote_lookup", "vote_add", "vote_remove"}

VotePcs == {"vote", "vote_lookup", "vote_add", "vote_remove"}

Begins(r) == req[r].pc = "idle" /\ req'[r].pc # "idle"

Finishes(r) == req[r].pc # "done" /\ req'[r].pc = "done"

Owner(ps, id) == (CHOOSE p \in PostById(ps, id) : TRUE).owner_id

Voters(vs, pid) == {u \in UserIds : vs[<<u, pid>>] > 0}

\* C1: with requests served one after the other, a vote request on an
\* existing post is a strict toggle.  A cast (dir = 1) by a user without a vote
\* on the post answers 201 and leaves exactly one vote row of that user on the
\* post; a cast by a user who has one answers 409 and changes nothing; a
\* retract (dir = 0) by a user who has one answers 201 and removes it; a
\* retract by a user without one answers 404 and changes nothing.  Hence cast,
\* cast, retract, cast answer 201, 409, 201, 201.
C1_VoteToggle ==
    [][\A r \in Slots :
        (req[r].pc \in VotePcs /\ Finishes(r) /\ PostById(posts, req[r].id) # {}) =>
            LET q == req[r]
                k == <<q.user, q.id>>
                st == req'[r].status
            IN  /\ (q.dir = 1 /\ votes[k] = 0) =>
                        st = 201 /\ votes' = [votes EXCEPT ![k] = 1]
                /\ (q.dir = 1 /\ votes[k] > 0) => st = 409 /\ votes' = votes
                /\ (q.dir = 0 /\ votes[k] > 0) =>
                        st = 201 /\ votes' = [votes EXCEPT ![k] = 0]
                /\ (q.dir = 0 /\ votes[k] = 0) => st = 404 /\ votes' = votes
      ]_vars

\* A repeated cast was answered 409 while the caller's vote is stored.
C1_Witness ==
    \E r \in Slots :
        /\ req[r].pc = "done" /\ req[r].kind = "vote" /\ req[r].dir = 1
        /\ req[r].status = 409
        /\ votes[<<req[r].tok.user_id, req[r].id>>] = 1

\* C2: in every reachable state, under every interleaving of the statements
\* of concurrent create, update, delete and vote requests, the votes table
\* holds at most one row for each (user, post) pair.
C2_OneVotePerPair == \A k \in VoteKeys : votes[k] <= 1

\* Two casts of the same user on the same post both passed the lookup; one has
\* inserted its row and the other is about to insert.
C2_Witness ==
    \E r1 \in Slots, r2 \in Slots :
        /\ r1 # r2
        /\ req[r1].pc = "done" /\ req[r1].kind = "vote" /\ req[r1].dir = 1
        /\ req[r1].status = 201
        /\ req[r2].pc = "vote_add"
        /\ req[r2].user = req[r1].tok.user_id /\ req[r2].id = req[r1].id
        /\ votes[<<req[r2].user, req[r2].id>>] = 1

\* C3: of two concurrent casts of one user on one post, the one whose insert
\* the primary key of votes rejects answers 409 (Conflict) and adds no row.
C3_RejectionIsConflict ==
    [][\A r \in Slots :
        (/\ req[r].pc = "vote_add" /\ Finishes(r)
         /\ VotePkViolation(votes, req[r].user, req[r].id)) =>
            req'[r].status = 409 /\ votes' = votes
      ]_vars

\* C4, as claimed: on a post that exists, update and delete by an
\* authenticated caller who is not the owner answer 403 whatever the payload,
\* and by the owner they answer 200 and 204 when the payload is valid.
C4_NonOwnerAlwaysForbidden ==
    [][\A r \in Slots :
        LET q == req'[r] IN
        (/\ Finishes(r) /\ q.kind \in {"update_post", "delete_post"}
         /\ q.status # 401 /\ PostById(posts, q.id) # {}) =>
            IF Owner(posts, q.id) # q.tok.user_id
            THEN q.status = 403
            ELSE q.status \in {IF q.kind = "update_post" THEN 200 ELSE 204, 422}
      ]_vars

\* C4, amended: the body of an update is validated before the endpoint body
\* runs, so an update with an invalid payload answers 422 whoever the caller
\* is, and only a valid payload reaches the checks.  On a post that exists
\* when the last statement of the request runs, delete, and update with a
\* valid payload, answer 403 to a caller who is not the owner, and 204 and 200
\* to the owner.
C4_OwnershipAfterValidation ==
    [][\A r \in Slots :
        LET q == req'[r] IN
        /\ (Begins(r) /\ q.kind = "update_post" /\ q.status # 401) =>
                IF PostCreateValid(q.payload)
                THEN q.pc = "update_post"
                ELSE q.pc = "done" /\ q.status = 422
        /\ (/\ Finishes(r) /\ q.kind \in {"update_post", "delete_post"}
            /\ q.status \notin {401, 422} /\ PostById(posts, q.id) # {}) =>
                IF Owner(posts, q.id) # q.tok.user_id
                THEN q.status = 403
                ELSE q.status = IF q.kind = "update_post" THEN 200 ELSE 204
      ]_vars

\* An update with an invalid payload by a caller who is not the owner of the
\* existing post was answered 422, and another caller's delete 403.
C4_Witness ==
    \E r1 \in Slots, r2 \in Slots :
        /\ req[r1].pc = "done" /\ req[r1].kind = "update_post"
        /\ req[r1].status = 422
        /\ PostById(posts, req[r1].id) # {}
        /\ Owner(posts, req[r1].id) # req[r1].tok.user_id
        /\ req[r2].pc = "done" /\ req[r2].kind = "delete_post"
        /\ req[r2].status = 403

\* A token that fails verification at time t: no token, a bad signature, or
\* an expiry in the past.
TokenFails(tok, t) == tok.sig # "good" \/ t > tok.exp

\* C5: every protected endpoint passes through identity resolution first.
\* A request without a token, or with one that fails verification, ends with
\* 401 in the step that receives it, with posts and votes untouched and no
\* statement of the endpoint body run; and the body of an endpoint is only
\* ever entered from that step, by a request whose token verifies, with the
\* token's user as the caller.
C5_IdentityFirst ==
    [][\A r \in Slots :
        LET q == req'[r] IN
        /\ (Begins(r) /\ q.kind \in ProtectedKinds /\ TokenFails(q.tok, now)) =>
                /\ q.pc = "done" /\ q.status = 401
                /\ posts' = posts /\ votes' = votes
        /\ (q.pc \in HandlerPcs /\ req[r].pc \notin HandlerPcs) =>
                /\ req[r].pc = "idle"
                /\ ~TokenFails(q.tok, now)
                /\ q.user = q.tok.user_id
        /\ (req[r].pc \in HandlerPcs /\ q.pc \in HandlerPcs) => q.user = req[r].user
      ]_vars

\* A vote request with a forged token was answered 401 while a post exists.
C5_Witness ==
    \E r \in Slots :
        /\ req[r].pc = "done" /\ req[r].kind = "vote" /\ req[r].status = 401
        /\ req[r].tok = ForgedToken
        /\ posts # {}

CredentialsRefused(q) ==
    q.pc = "done" /\ q.status = 401 /\ q.detail = "Could not validate credentials"

\* C6: a correctly signed, unexpired token whose user row is gone is refused
\* with the status and message a badly signed token is refused with; and a
\* request that passes resolution has as its caller the stored user whose id
\* the token embeds.
C6_MissingUserRefused ==
    [][\A r \in Slots :
        LET q == req'[r] IN
        (Begins(r) /\ q.kind \in ProtectedKinds) =>
            /\ (/\ q.tok.sig = "good" /\ now <= q.tok.exp
                /\ UserById(users, q.tok.user_id) = {}) => CredentialsRefused(q)
            /\ q.tok.sig = "bad" => CredentialsRefused(q)
            /\ q.pc # "done" =>
                    q.user = q.tok.user_id /\ UserById(users, q.user) # {}
      ]_vars

\* A request with a signed, unexpired token of a deleted user was refused.
C6_Witness ==
    \E r \in Slots :
        /\ CredentialsRefused(req[r])
        /\ req[r].tok.sig = "good" /\ now <= req[r].tok.exp
        /\ UserById(users, req[r].tok.user_id) = {}

\* C7: the token a login at time s returns expires at s + TTL; a client's
\* token verifies, giving its user id, at every clock reading up to its
\* expiry and fails at every later one, whether or not the user's row is
\* still stored; and a request presenting it to a protected endpoint is
\* refused exactly when it is expired or the user is gone.
C7_TokenLifetime ==
    [][\A r \in Slots :
        LET q == req'[r]
            tok == held'[r]
        IN
        /\ (req[r].pc = "idle" /\ q.kind = "login" /\ q.status = 200) =>
                /\ tok.exp = now + ACCESS_TOKEN_EXPIRE_MINUTES
                /\ tok.user_id = q.out
                /\ verify_access_token(tok, now) = tok.user_id
        /\ tok # NoToken =>
                /\ tok.exp - ACCESS_TOKEN_EXPIRE_MINUTES <= now'
                /\ verify_access_token(tok, now') =
                        IF now' <= tok.exp THEN tok.user_id ELSE 0
        /\ (Begins(r) /\ q.kind \in ProtectedKinds /\ q.tok.sig = "good") =>
                (q.status = 401 <=>
                    (now > q.tok.exp \/ UserById(users, q.tok.user_id) = {}))
      ]_vars

\* A request was refused for its expired token, the user still stored, and
\* the client's token is that one.
C7_Witness ==
    \E r \in Slots :
        /\ CredentialsRefused(req[r])
        /\ req[r].tok = held[r]
        /\ now = held[r].exp + 1
        /\ UserById(users, held[r].user_id) # {}

\* C8: a login with the e-mail and password a stored user was registered
\* with succeeds, and the token it returns resolves to that user.
C8_RegisterThenLogin ==
    [][\A r \in Slots :
        LET q == req'[r] IN
        (req[r].pc = "idle" /\ q.kind = "login") =>
            \A g \in registered :
                (/\ g.email = q.payload.email /\ g.password = q.payload.password
                 /\ UserById(users, g.id) # {}) =>
                    /\ q.status = 200
                    /\ get_current_user(held'[r], now, users) = g.id
      ]_vars

\* C9: registering with an e-mail that a stored user already has answers 409
\* (Conflict) and leaves the users unchanged.
C9_DuplicateEmailConflict ==
    [][\A r \in Slots :
        LET q == req'[r] IN
        (/\ req[r].pc = "idle" /\ q.kind = "create_user"
         /\ \E u \in users : u.email = q.payload.email) =>
            q.status = 409 /\ users' = users
      ]_vars

\* C10: get_post on a stored post answers 200 with the number of users who
\* hold a vote on it, also when that number is 0, and 404 only when the post
\* is not stored; and the post a create has just stored has the count 0.
C10_VoteCount ==
    [][\A r \in Slots :
        LET q == req'[r] IN
        /\ (req[r].pc = "get_post" /\ Finishes(r)) =>
                IF PostById(posts, req[r].id) # {}
                THEN q.status = 200 /\ q.out = Cardinality(Voters(votes, req[r].id))
                ELSE q.status = 404
        /\ (req[r].pc = "create_post" /\ Finishes(r) /\ q.status = 201) =>
                /\ PostWithVotes(posts', votes', q.out) # {}
                /\ \A x \in PostWithVotes(posts', votes', q.out) : x[2] = 0
      ]_vars

\* One client was given the count 0 for a stored post and another the count
\* 2 for a post both users voted on.
C10_Witness ==
    \E r1 \in Slots, r2 \in Slots :
        /\ req[r1].pc = "done" /\ req[r1].kind = "get_post"
        /\ req[r1].status = 200 /\ req[r1].out = 0
        /\ PostById(posts, req[r1].id) # {}
        /\ req[r2].pc = "done" /\ req[r2].kind = "get_post"
        /\ req[r2].status = 200 /\ req[r2].out = 2

\* C11: the deletion of a user's row removes the user's posts, the user's
\* votes and the votes on the removed posts, and nothing else: the other
\* users, their posts and their votes on the posts that stay are as before.
\* A removed post stays removed, and get_post on it answers 404.
C11_UserDeleteCascades ==
    [][/\ \A uid \in UserIds :
            (UserById(users, uid) # {} /\ UserById(users', uid) = {}) =>
                LET gone == {p \in posts : p.owner_id = uid} IN
                /\ users' = {u \in users : u.id # uid}
                /\ posts' = posts \ gone
                /\ \A p \in posts' : p.owner_id # uid
                /\ \A k \in VoteKeys :
                        votes'[k] = IF k[1] = uid \/ k[2] \in {p.id : p \in gone}
                                    THEN 0 ELSE votes[k]
                /\ {p.id : p \in gone} \subseteq cascaded'
        /\ \A id \in cascaded : PostById(posts', id) = {}
        /\ \A r \in Slots :
            (req[r].pc = "get_post" /\ Finishes(r) /\ req[r].id \in cascaded) =>
                req'[r].status = 404
      ]_vars

\* After a user was deleted, another user's get_post on a post of the deleted
\* user was answered 404, while that other user's post and vote are stored.
C11_Witness ==
    \E r \in Slots :
        /\ req[r].pc = "done" /\ req[r].kind = "get_post" /\ req[r].status = 404
        /\ req[r].id \in cascaded
        /\ \E p \in posts : p.owner_id = req[r].tok.user_id /\ votes[<<p.owner_id, p.id>>] = 1

\* search occurs in title as a run of consecutive characters.
IsSubstring(title, search) ==
    \E i \in 0..(Len(title) - Len(search)) :
        SubSeq(title, i + 1, i + Len(search)) = search

\* C12: get_posts answers with exactly the posts whose title has search as
\* a substring, of any owner and published or not, in ascending order of id,
\* without the first skip of them and at most limit of them, each with the
\* number of its voters.
C12_ListSemantics ==
    [][\A r \in Slots :
        (req[r].pc = "get_posts" /\ Finishes(r)) =>
            LET query == req[r].payload
                body == req'[r].body
                M == {p.id : p \in {x \in posts : IsSubstring(x.title, query.search)}}
                rest == IF Cardinality(M) > query.skip
                        THEN Cardinality(M) - query.skip ELSE 0
            IN  /\ req'[r].status = 200
                /\ Len(body) = IF rest < query.limit THEN rest ELSE query.limit
                /\ \A i \in 1..Len(body) :
                        /\ body[i][1] \in M
                        /\ Cardinality({m \in M : m < body[i][1]}) = query.skip + i - 1
                        /\ body[i][2] = Cardinality(Voters(votes, body[i][1]))
      ]_vars

\* C13: the write of an update gives the post the title, content and
\* published of the request, published being true when the request has none,
\* and leaves the post's id, owner and creation time, every other post, the
\* votes and the users as they were; the update that answers 200 has made
\* that write.  A post is created with its caller as owner, and no step
\* changes the owner or the creation time of a stored post.
C13_UpdateFrame ==
    [][\A r \in Slots :
        LET q == req[r] IN
        /\ (q.pc = "update_post_write" /\ req'[r] # q) =>
                /\ users' = users /\ votes' = votes
                /\ {p \in posts' : p.id # q.id} = {p \in posts : p.id # q.id}
                /\ {p.id : p \in posts'} = {p.id : p \in posts}
                /\ \A p \in PostById(posts', q.id) :
                        /\ p.title = q.payload.title
                        /\ p.content = q.payload.content
                        /\ p.published = IF "published" \in DOMAIN q.payload
                                         THEN q.payload.published ELSE TRUE
        /\ (Finishes(r) /\ q.kind = "update_post" /\ req'[r].status = 200) =>
                /\ q.pc = "update_post_return"
                /\ users' = users /\ posts' = posts /\ votes' = votes
        /\ (q.pc # "update_post_return" /\ req'[r].pc = "update_post_return") =>
                q.pc = "update_post_write"
        /\ (q.pc = "create_post" /\ Finishes(r) /\ req'[r].status = 201) =>
                \A p \in posts' \ posts :
                    p.id = req'[r].out /\ p.owner_id = q.tok.user_id
        /\ \A p \in posts, p2 \in posts' :
                p.id = p2.id => p2.owner_id = p.owner_id /\ p2.created_at = p.created_at
      ]_vars

\* An update was answered 200 and the post, created earlier, has the values
\* of a request without published; another post, not published, is stored.
C13_Witness ==
    \E r \in Slots :
        /\ req[r].pc = "done" /\ req[r].kind = "update_post" /\ req[r].status = 200
        /\ \E p \in PostById(posts, req[r].id) :
                /\ p.title = PayloadA.title /\ p.published
                /\ p.created_at < now
                /\ p.owner_id = req[r].tok.user_id
        /\ \E p \in posts : p.id # req[r].id /\ ~p.published

\* The statuses of InvalidCredential, Forbidden, NotFound and Conflict.
Failures == {401, 403, 404, 409}

\* C14: a request that ends in a failure has changed nothing in users,
\* posts and votes.  The step that answers with a failure changes none of
\* them; and a step of a request that does change one of them is either
\* its last step, answering 201 or 204, or the write of an update, after
\* which the request does not end in a failure.
C14_FailureLeavesStore ==
    [][\A r \in Slots :
        LET q == req[r] IN
        /\ (Finishes(r) /\ req'[r].status \in Failures) =>
                users' = users /\ posts' = posts /\ votes' = votes
        /\ (req'[r] # q /\ <<users', posts', votes'>> # <<users, posts, votes>>) =>
                \/ req'[r].pc = "done" /\ req'[r].status \in {201, 204}
                \/ q.pc = "update_post_write" /\ req'[r].pc = "update_post_return"
        /\ (q.pc = "update_post_return" /\ Finishes(r)) =>
                req'[r].status \notin Failures
      ]_vars

\* A delete by a user who is not the owner was answered 403, and the post
\* and the owner's vote on it are stored.
C14_Witness ==
    \E r \in Slots :
        /\ req[r].pc = "done" /\ req[r].kind = "delete_post" /\ req[r].status = 403
        /\ \E p \in PostById(posts, req[r].id) :
                p.owner_id # req[r].tok.user_id /\ votes[<<p.owner_id, p.id>>] = 1

\* C15: an update by the owner, running concurrently with a delete of the
\* post, acts as one read-check-then-write: it answers 404, or it writes the
\* post and answers 200 with the post; it makes no write when the post is
\* already removed and gives no other answer.
C15_UpdateAtomic ==
    [][\A r \in Slots :
        LET q == req[r] IN
        /\ (q.pc = "update_post_write" /\ req'[r] # q) =>
                PostById(posts, q.id) # {}
        /\ (/\ q.pc \in {"update_post", "update_post_return"} /\ Finishes(r)
            /\ req'[r].status # 403) =>
                /\ req'[r].status \in {200, 404}
                /\ req'[r].status = 200 => PostById(posts, q.id) # {}
      ]_vars

\* C16: a cast by a user without a vote on the post, running concurrently
\* with the deletion of the post, answers 201 or 404 and nothing else; and
\* no vote on a post that is not stored is left.
C16_CastOrNotFound ==
    [][/\ \A r \in Slots :
            LET q == req[r] IN
            (/\ q.pc \in VotePcs /\ q.dir = 1 /\ Finishes(r)
             /\ votes[<<q.user, q.id>>] = 0) =>
                req'[r].status \in {201, 404}
        /\ \A k \in VoteKeys : votes'[k] > 0 => PostById(posts', k[2]) # {}
      ]_vars

\* Every vote is of a stored user on a stored post, and every post has a
\* stored owner.
ReferentialIntegrity ==
    /\ \A k \in VoteKeys :
            votes[k] > 0 => UserById(users, k[1]) # {} /\ PostById(posts, k[2]) # {}
    /\ \A p \in posts : UserById(users, p.owner_id) # {}

\* C17: referential integrity holds in every reachable state; the delete
\* that answers 204 leaves neither the post nor a vote on it; a removed post
\* stays removed, and get_post on a post that is not stored answers 404.
C17_ReferentialIntegrity ==
    /\ []ReferentialIntegrity
    /\ [][/\ \A r \in Slots :
                LET q == req[r] IN
                /\ (q.kind = "delete_post" /\ Finishes(r) /\ req'[r].status = 204) =>
                        /\ PostById(posts', q.id) = {}
                        /\ \A u \in UserIds : votes'[<<u, q.id>>] = 0
                /\ (q.pc = "get_post" /\ Finishes(r) /\ PostById(posts, q.id) = {}) =>
                        req'[r].status = 404
           /\ \A id \in PostIds :
                (id < post_id_seq /\ PostById(posts, id) = {}) => PostById(posts', id) = {}
         ]_vars

\* A post was removed by a delete, not by the deletion of its owner; a
\* get_post on it was answered 404, and a vote on another post is stored.
C17_Witness ==
    \E r \in Slots :
        /\ req[r].pc = "done" /\ req[r].kind = "get_post" /\ req[r].status = 404
        /\ req[r].id < post_id_seq /\ req[r].id \notin cascaded
        /\ \E k \in VoteKeys : votes[k] = 1 /\ k[2] # req[r].id

=============================================================================
